---- MODULE Spec2Model ----
(***************************************************************************)
(* Model of src/src/metrics_server.py: the EIP metrics collector.          *)
(*                                                                         *)
(* main() initialises the gauges, then starts two daemon threads that both *)
(* call collector.collect_metrics(): metrics_worker (a loop) and           *)
(* initial_collection (once, after a 2 s sleep).  The Flask thread serves  *)
(* /metrics.  Every statement that touches shared state (the collector's   *)
(* fields, the registered gauges) is one step of the thread executing it;  *)
(* thread-local computation is folded into the next such step.             *)
(***************************************************************************)
EXTENDS Integers, Sequences, FiniteSets, TLC

VARIABLES
    now,                     \* time.time()
    pc,                      \* position of each collecting thread
    loc,                     \* locals of each collecting thread
    cycles,                  \* number of collect_metrics calls each thread began
    eip_nodes,               \* self.eip_nodes
    data_cache,              \* self.data_cache.get('eip_nodes'); <<>> when absent
    last_cache_time,         \* self.last_cache_time
    eip_changes_history,     \* self.eip_changes_history
    cpic_recoveries_history, \* self.cpic_recoveries_history
    previous_eip_assigned,   \* self.previous_eip_assigned (an attribute set late)
    last_update,             \* self.last_update
    registry,                \* the registered gauges and counters
    scraped,                 \* the /metrics response being returned, <<>> when none is
    published,               \* history: the bundles of the cycles that finished publishing
    budget,                  \* how many cycles each thread may still be asked to begin
    plan,                    \* trend run: the course the cluster takes
    mm_in,                   \* detection harness: the snapshot handed to detect_mismatches
    mm_log,                  \* detection harness: the runs so far, as <<input, result>>
    calc                     \* calculation harness: arguments and results of the pure calculations

vars == <<now, pc, loc, cycles, eip_nodes, data_cache, last_cache_time,
          eip_changes_history, cpic_recoveries_history, previous_eip_assigned,
          last_update, registry, scraped, published, budget, plan, mm_in, mm_log,
          calc>>

----------------------------------------------------------------------------
(* Bounds of the model *)

T0 == 1000          \* time.time() at process start
MaxTicks == 1       \* how often the clock advances
MaxCycles == 2      \* how many cycles the worker loop begins
MaxRuns == 3        \* detection harness: how many detections run in a row
MaxNodes == 2       \* detection harness: the largest number of eligible nodes
MaxRequested == 5   \* calculation harness: the most IPs one resource requests
CalcNodes == 3      \* calculation harness: the largest number of eligible nodes
MaxPerNode == 3     \* calculation harness: the largest per-node count
TrendCycles == 62   \* trend run: how many cycles the worker loop begins

TickSteps == {10}   \* seconds by which the clock advances in one step

(* Program constants *)
cache_ttl == 10
Horizon == 3600

----------------------------------------------------------------------------
(* Sequence helpers *)

RECURSIVE SelectSeqBy(_, _)
\* [x for x in s if Keep(x)] with Keep given as the set of kept elements
SelectSeqBy(s, keep) ==
    IF s = <<>> THEN <<>>
    ELSE IF Head(s) \in keep THEN <<Head(s)>> \o SelectSeqBy(Tail(s), keep)
         ELSE SelectSeqBy(Tail(s), keep)

Range(s) == {s[i] : i \in DOMAIN s}

Abs(x) == IF x < 0 THEN -x ELSE x

----------------------------------------------------------------------------
(* Snapshot source: what `oc` can print *)

\* An EgressIP item: metadata.name, spec.egressIPs, status.items[] (node "" = no node).
EipItem(name, ips, items) == [name |-> name, egressIPs |-> ips, items |-> items]
Bind(ip, node) == [egressIP |-> ip, node |-> node]

\* A CloudPrivateIPConfig item: metadata.name (the IP), status.node, spec.node,
\* status.conditions[].reason; statusNull is a payload with "status": null.
CpicItem(ip, statusNode, specNode, conds) ==
    [name |-> ip, statusNull |-> FALSE, statusNode |-> statusNode,
     specNode |-> specNode, conditions |-> conds]
CpicNullStatus(ip) ==
    [name |-> ip, statusNull |-> TRUE, statusNode |-> "", specNode |-> "",
     conditions |-> <<>>]

EipDocs ==
    { <<>>,
      << EipItem("r1", <<"ip1", "ip2">>, <<Bind("ip1", "n1"), Bind("ip2", "n2")>>) >>,
      << EipItem("r1", <<"ip1">>, <<Bind("ip1", "n1"), Bind("ip2", "n2")>>) >> }

CpicDocs ==
    { << CpicItem("ip1", "n2", "n1", <<"CloudResponseSuccess">>),
         CpicItem("ip2", "", "n2", <<"CloudResponseError", "CloudResponseSuccess">>) >>,
      << CpicNullStatus("ip1") >> }

NodeLists == { <<>>, <<"n1", "n2">> }

\* run_oc_command: None on a non-zero exit, a timeout or another exception,
\* the stripped stdout otherwise (JSON text or text json.loads rejects).
OcFail == [kind |-> "fail", doc |-> <<>>]
OcGarbage == [kind |-> "garbage", doc |-> <<>>]
OcJson(doc) == [kind |-> "json", doc |-> doc]

\* what the three queries can answer during a run
FullSource ==
    [eip |-> {OcFail} \cup {OcJson(d) : d \in EipDocs},
     cpic |-> {OcFail, OcGarbage} \cup {OcJson(d) : d \in CpicDocs},
     nodes |-> {OcFail} \cup {OcJson(d) : d \in NodeLists}]

\* json.loads: a document, or JSONDecodeError
Parses(out) == out.kind = "json"
JsonLoads(out) == out.doc

----------------------------------------------------------------------------
(* Global counts (process_all_metrics_optimized, lines 840-867) *)

RECURSIVE ConfiguredCount(_)
ConfiguredCount(doc) ==
    IF doc = <<>> THEN 0
    ELSE Len(Head(doc).egressIPs) + ConfiguredCount(Tail(doc))

NodeBound(items) == {i \in DOMAIN items : items[i].node # ""}

RECURSIVE AssignedCount(_)
AssignedCount(doc) ==
    IF doc = <<>> THEN 0
    ELSE Cardinality(NodeBound(Head(doc).items)) + AssignedCount(Tail(doc))

UnassignedCount(configured, assigned) == configured - assigned

\* (assigned / configured) * 100 as the exact fraction num/den; 0 when configured = 0
Utilization(configured, assigned) ==
    IF configured > 0 THEN [num |-> assigned * 100, den |-> configured]
    ELSE [num |-> 0, den |-> 1]

----------------------------------------------------------------------------
(* detect_mismatches (lines 658-753).  Python dicts are functions; the     *)
(* loops over dict items are folds whose steps commute, so the order of    *)
(* iteration is immaterial.                                                *)

DictPut(d, k, v) == [x \in (DOMAIN d) \cup {k} |-> IF x = k THEN v ELSE d[x]]
DictGet(d, k, default) == IF k \in DOMAIN d THEN d[k] ELSE default
EmptyDict == [x \in {} |-> 0]

\* resource_name = f"{namespace}/{name}"; EgressIP has no namespace
ResourceName(item) == "/" \o item.name
Unknown == "unknown"

\* a result dict that outlives the call: the next detection starts from it
CarriedOver ==
    IF mm_log = <<>>
    THEN [total |-> 0, node_mismatch |-> 0, missing_in_eip |-> 0, missing_in_cpic |-> 0,
          mismatch_by_resource |-> [x \in {} |-> 0], mismatch_by_ip |-> [x \in {} |-> 0]]
    ELSE mm_log[Len(mm_log)].out

\* lines 663-670: the fresh result of one detection
MismatchesInit ==
    [total |-> 0, node_mismatch |-> 0, missing_in_eip |-> 0, missing_in_cpic |-> 0,
     mismatch_by_resource |-> EmptyDict, mismatch_by_ip |-> EmptyDict]

\* a reading of line 678 that prefers spec.node
SpecNodeFirst(item) == IF item.specNode # "" THEN item.specNode ELSE item.statusNode

\* lines 672-680: IP -> node, status.node preferred over spec.node
CpicNode(item) == IF item.statusNode # "" THEN item.statusNode ELSE item.specNode

RECURSIVE CpicIpToNode(_, _)
CpicIpToNode(items, d) ==
    IF items = <<>> THEN d
    ELSE LET item == Head(items) IN
         CpicIpToNode(Tail(items),
                      IF item.name # "" /\ CpicNode(item) # ""
                      THEN DictPut(d, item.name, CpicNode(item)) ELSE d)

\* lines 692-698: the status items of one resource
RECURSIVE StatusToNode(_, _)
StatusToNode(items, d) ==
    IF items = <<>> THEN d
    ELSE LET si == Head(items) IN
         StatusToNode(Tail(items),
                      IF si.egressIP # "" /\ si.node # ""
                      THEN DictPut(d, si.egressIP, si.node) ELSE d)

RECURSIVE StatusToResource(_, _, _)
StatusToResource(items, name, d) ==
    IF items = <<>> THEN d
    ELSE LET si == Head(items) IN
         StatusToResource(Tail(items), name,
                          IF si.egressIP # "" /\ si.node # ""
                          THEN DictPut(d, si.egressIP, name) ELSE d)

StatusAssigned(items) ==
    Cardinality({i \in DOMAIN items : items[i].egressIP # "" /\ items[i].node # ""})

\* lines 682-700
RECURSIVE EipIpToNode(_, _)
EipIpToNode(doc, d) ==
    IF doc = <<>> THEN d
    ELSE EipIpToNode(Tail(doc), StatusToNode(Head(doc).items, d))

RECURSIVE EipIpToResource(_, _)
EipIpToResource(doc, d) ==
    IF doc = <<>> THEN d
    ELSE EipIpToResource(Tail(doc),
                         StatusToResource(Head(doc).items, ResourceName(Head(doc)), d))

RECURSIVE ResourceAssignedCounts(_, _)
ResourceAssignedCounts(doc, d) ==
    IF doc = <<>> THEN d
    ELSE ResourceAssignedCounts(Tail(doc),
             DictPut(d, ResourceName(Head(doc)), StatusAssigned(Head(doc).items)))

\* lines 702-708
RECURSIVE SpecIpsToResource(_, _, _)
SpecIpsToResource(ips, name, d) ==
    IF ips = <<>> THEN d
    ELSE SpecIpsToResource(Tail(ips), name, DictPut(d, Head(ips), name))

RECURSIVE IpToResourceFromSpec(_, _)
IpToResourceFromSpec(doc, d) ==
    IF doc = <<>> THEN d
    ELSE IpToResourceFromSpec(Tail(doc),
             SpecIpsToResource(Head(doc).egressIPs, ResourceName(Head(doc)), d))

\* lines 722-727, 735-740, 745-751: record one mismatch
AddMismatch(m, ip, type, resource_name) ==
    [m EXCEPT !.total = @ + 1,
              ![type] = @ + 1,
              !.mismatch_by_ip = DictPut(@, ip, type),
              !.mismatch_by_resource =
                  DictPut(@, resource_name, DictGet(@, resource_name, {}) \cup {ip})]

\* lines 712-740: one iteration of the loop over cpic_ip_to_node
ClassifyCpicIp(m, ip, cpic_node, eip_to_node, eip_to_res, spec_to_res, counts, available_nodes) ==
    LET resource_name ==
            IF ip \in DOMAIN eip_to_res THEN eip_to_res[ip]
            ELSE DictGet(spec_to_res, ip, Unknown)
    IN IF ip \in DOMAIN eip_to_node
       THEN IF eip_to_node[ip] # cpic_node
            THEN AddMismatch(m, ip, "node_mismatch", resource_name)
            ELSE m
       ELSE IF resource_name # Unknown
               /\ DictGet(counts, resource_name, 0) < available_nodes
            THEN AddMismatch(m, ip, "missing_in_eip", resource_name)
            ELSE m

\* a second loop that does not test membership
NeverTested(ip, cpic_to_node) == TRUE

\* line 744: the test of the second loop
AbsentFromCpic(ip, cpic_to_node) == ip \notin DOMAIN cpic_to_node

\* lines 743-751: one iteration of the loop over eip_ip_to_node
ClassifyEipIp(m, ip, cpic_to_node, eip_to_res) ==
    IF AbsentFromCpic(ip, cpic_to_node)
    THEN AddMismatch(m, ip, "missing_in_cpic", DictGet(eip_to_res, ip, Unknown))
    ELSE m

RECURSIVE CpicLoop(_, _, _, _, _, _, _, _)
CpicLoop(m, todo, cpic_to_node, eip_to_node, eip_to_res, spec_to_res, counts, available_nodes) ==
    IF todo = {} THEN m
    ELSE LET ip == CHOOSE x \in todo : TRUE IN
         CpicLoop(ClassifyCpicIp(m, ip, cpic_to_node[ip], eip_to_node, eip_to_res,
                                 spec_to_res, counts, available_nodes),
                  todo \ {ip}, cpic_to_node, eip_to_node, eip_to_res, spec_to_res,
                  counts, available_nodes)

RECURSIVE EipLoop(_, _, _, _)
EipLoop(m, todo, cpic_to_node, eip_to_res) ==
    IF todo = {} THEN m
    ELSE LET ip == CHOOSE x \in todo : TRUE IN
         EipLoop(ClassifyEipIp(m, ip, cpic_to_node, eip_to_res),
                 todo \ {ip}, cpic_to_node, eip_to_res)

detect_mismatches(eip_data, cpic_data, available_nodes) ==
    LET cpic_to_node == CpicIpToNode(cpic_data, EmptyDict)
        eip_to_node == EipIpToNode(eip_data, EmptyDict)
        eip_to_res == EipIpToResource(eip_data, EmptyDict)
        counts == ResourceAssignedCounts(eip_data, EmptyDict)
        spec_to_res == IpToResourceFromSpec(eip_data, EmptyDict)
        m1 == CpicLoop(MismatchesInit, DOMAIN cpic_to_node, cpic_to_node, eip_to_node,
                       eip_to_res, spec_to_res, counts, available_nodes)
    IN EipLoop(m1, DOMAIN eip_to_node, cpic_to_node, eip_to_res)

\* a test that looks for node mismatches only
NodeMismatched(ip, mismatches) ==
    /\ ip \in DOMAIN mismatches.mismatch_by_ip
    /\ mismatches.mismatch_by_ip[ip] = "node_mismatch"

\* line 797: the IP has a mismatch
Mismatched(ip, mismatches) == ip \in DOMAIN mismatches.mismatch_by_ip

\* lines 787-799: the loop over the status items of one resource, left at the
\* first node-bound IP without a mismatch
RECURSIVE CriticalScan(_, _, _)
CriticalScan(status_items, mismatches, has_any_assignment) ==
    IF status_items = <<>>
    THEN [has_any_assignment |-> has_any_assignment, all_have_mismatches |-> TRUE]
    ELSE LET status_item == Head(status_items) IN
         IF status_item.node # ""
         THEN IF ~Mismatched(status_item.egressIP, mismatches)
              THEN [has_any_assignment |-> TRUE, all_have_mismatches |-> FALSE]
              ELSE CriticalScan(Tail(status_items), mismatches, TRUE)
         ELSE CriticalScan(Tail(status_items), mismatches, has_any_assignment)

\* lines 781-805: what one resource adds to critical_count
CriticalOne(item, mismatches) ==
    IF item.items = <<>> THEN 1
    ELSE LET scan == CriticalScan(item.items, mismatches, FALSE) IN
         IF scan.has_any_assignment /\ scan.all_have_mismatches THEN 1
         ELSE IF ~scan.has_any_assignment THEN 1
         ELSE 0

\* detect_critical_eips, lines 768-807
RECURSIVE detect_critical_eips(_, _)
detect_critical_eips(eip_data, mismatches) ==
    IF eip_data = <<>> THEN 0
    ELSE CriticalOne(Head(eip_data), mismatches)
            + detect_critical_eips(Tail(eip_data), mismatches)

\* a count of the mismatched IPs, not of the resources
MismatchedIps(mismatches) == mismatches.total

\* lines 977-978: unique resources with mismatches
MalfunctioningCount(mismatches) == Cardinality(DOMAIN mismatches.mismatch_by_resource)

----------------------------------------------------------------------------
(* Detection harness: detect_mismatches applied to bounded snapshots, run  *)
(* after run as successive cycles apply it.                                *)

MmIPs == {"ip1", "ip2"}
MmNodeField == {"", "n1", "n2"}

SeqsUpTo2(S) == {<<>>} \cup {<<a>> : a \in S} \cup {<<a, b>> : a \in S, b \in S}

MmBindings == {Bind(ip, n) : ip \in MmIPs, n \in MmNodeField}
MmFirstResource ==
    {EipItem("r1", ips, items) :
        ips \in {<<"ip1">>, <<"ip1", "ip2">>}, items \in SeqsUpTo2(MmBindings)}
MmSecondResource ==
    {<<>>, <<EipItem("r2", <<"ip2">>, <<Bind("ip2", "n1")>>)>>}
MmEipDocs == {<<r>> \o rest : r \in MmFirstResource, rest \in MmSecondResource}

MmCpicItems ==
    {CpicItem(ip, np[1], np[2], <<"CloudResponseSuccess">>) :
        ip \in MmIPs, np \in {<<"", "">>, <<"n1", "">>, <<"n2", "n1">>}}
MmCpicDocs == SeqsUpTo2(MmCpicItems)

MmInputs ==
    [eip : MmEipDocs, cpic : MmCpicDocs, available_nodes : 1..MaxNodes]

\* what the snapshot source may hold in a later cycle
MmLaterInputs ==
    { [eip |-> <<EipItem("r1", <<"ip1">>, <<Bind("ip1", "n1")>>)>>,
       cpic |-> <<CpicItem("ip1", "n2", "", <<"CloudResponseSuccess">>)>>,
       available_nodes |-> 2],
      [eip |-> <<EipItem("r1", <<"ip1", "ip2">>, <<>>)>>,
       cpic |-> <<CpicItem("ip2", "n1", "", <<"CloudResponseSuccess">>)>>,
       available_nodes |-> 1] }

programVars ==
    <<now, pc, loc, cycles, eip_nodes, data_cache, last_cache_time,
      eip_changes_history, cpic_recoveries_history, previous_eip_assigned,
      last_update, registry, scraped, published, budget, plan, calc>>

MmIdle == mm_in = [eip |-> <<>>, cpic |-> <<>>, available_nodes |-> 1] /\ mm_log = <<>>

MmInit == mm_in \in MmInputs /\ mm_log = <<>>

\* one cycle's call, line 972
MmDetect ==
    /\ Len(mm_log) < MaxRuns
    /\ mm_log' = Append(mm_log,
           [in |-> mm_in,
            out |-> detect_mismatches(mm_in.eip, mm_in.cpic, mm_in.available_nodes),
            malfunctioning |-> MalfunctioningCount(
                detect_mismatches(mm_in.eip, mm_in.cpic, mm_in.available_nodes)),
            critical |-> detect_critical_eips(mm_in.eip,
                detect_mismatches(mm_in.eip, mm_in.cpic, mm_in.available_nodes))])
    /\ UNCHANGED mm_in
    /\ UNCHANGED programVars

\* the cluster changes between two cycles
MmResnapshot ==
    /\ Len(mm_log) = 1
    /\ mm_log[1].in = mm_in
    /\ mm_in' \in MmLaterInputs \ {mm_in}
    /\ UNCHANGED mm_log
    /\ UNCHANGED programVars

----------------------------------------------------------------------------
(* The calculations of the aggregation *)

\* a term that is not guarded by the comparison of line 763
Shortfall(configured_count, available_nodes) == configured_count - available_nodes

\* lines 763-764: what one resource adds to overcommitted_ips
Excess(configured_count, available_nodes) ==
    IF configured_count > available_nodes
    THEN configured_count - available_nodes ELSE 0

\* calculate_overcommitted, lines 755-766
RECURSIVE calculate_overcommitted(_, _)
calculate_overcommitted(eip_data, available_nodes) ==
    IF eip_data = <<>> THEN 0
    ELSE Excess(Len(Head(eip_data).egressIPs), available_nodes)
            + calculate_overcommitted(Tail(eip_data), available_nodes)

\* sorted(): insertion into an ascending sequence
RECURSIVE Insert(_, _)
Insert(x, sorted) ==
    IF sorted = <<>> THEN <<x>>
    ELSE IF x <= Head(sorted) THEN <<x>> \o sorted
    ELSE <<Head(sorted)>> \o Insert(x, Tail(sorted))

RECURSIVE Sorted(_)
Sorted(counts) == IF counts = <<>> THEN <<>> ELSE Insert(Head(counts), Sorted(Tail(counts)))

RECURSIVE SumOf(_)
SumOf(counts) == IF counts = <<>> THEN 0 ELSE Head(counts) + SumOf(Tail(counts))

\* a weight that takes the position as it is enumerated, from 0
WeightFromZero(i, n) == 2 * i - n - 1

\* line 538: the weight of the count at position i of enumerate(), from 0
GiniWeight(i, n) == 2 * (i + 1) - n - 1

\* lines 536-538: gini_sum over sorted_counts[i..], i counted from 0
RECURSIVE GiniSum(_, _, _)
GiniSum(sorted_counts, i, n) ==
    IF sorted_counts = <<>> THEN 0
    ELSE GiniWeight(i, n) * Head(sorted_counts) + GiniSum(Tail(sorted_counts), i + 1, n)

\* lines 530-547: the value eip_distribution_gini is set to, as the exact
\* fraction num/den (abs(gini_sum / (n * total_sum)), or 0)
Gini(counts) ==
    LET n == Len(counts)
        total_sum == SumOf(counts)
    IN IF total_sum > 0
       THEN [num |-> Abs(GiniSum(Sorted(counts), 0, n)), den |-> n * total_sum]
       ELSE [num |-> 0, den |-> 1]

\* calculate_distribution_metrics, lines 503-547: the gauge afterwards; with
\* no counts the function returns and the gauge keeps its value
calculate_distribution_metrics(counts, gauge) ==
    IF counts = <<>> THEN gauge ELSE <<Gini(counts)>>

\* lines 877-883 and 945-950: per eligible node, the status items naming it
NodeEipCounts(eip_data, nodes) ==
    [i \in 1..Len(nodes) |->
        SumOf([r \in 1..Len(eip_data) |->
                 Cardinality({j \in DOMAIN eip_data[r].items :
                                 eip_data[r].items[j].node = nodes[i]})])]

\* lines 822-826: the resources whose first status item names the node
PrimaryOn(eip_data, node) ==
    Cardinality({r \in DOMAIN eip_data :
                    /\ eip_data[r].items # <<>>
                    /\ eip_data[r].items[1].node = node})

\* lines 828-832: the status items after the first that name the node
SecondaryOn(eip_data, node) ==
    SumOf([r \in 1..Len(eip_data) |->
             Cardinality({j \in DOMAIN eip_data[r].items :
                             j > 1 /\ eip_data[r].items[j].node = node})])

\* calculate_primary_secondary_eips, lines 809-835
calculate_primary_secondary_eips(eip_data, nodes) ==
    [primary_by_node |-> [node \in Range(nodes) |-> PrimaryOn(eip_data, node)],
     secondary_by_node |-> [node \in Range(nodes) |-> SecondaryOn(eip_data, node)]]

\* lines 953-954 and 992-994: gauge.labels(node=node).set(by_node[node]) for
\* every node of the cycle; the children of other labels stay as they are
LabelsSet(children, by_node) ==
    [node \in (DOMAIN children) \cup (DOMAIN by_node) |->
        IF node \in DOMAIN by_node THEN by_node[node] ELSE children[node]]

\* lines 877-883 and 945-950 as a dict: node_eip_counts
NodeEipCountsByNode(eip_data, nodes) ==
    [node \in Range(nodes) |->
        NodeEipCounts(eip_data, nodes)[CHOOSE i \in DOMAIN nodes : nodes[i] = node]]

\* self.last_gini_coefficient: <<>> while the attribute does not exist. No
\* statement of the source assigns it.
last_gini_coefficient == <<>>

\* lines 570-575: the distribution fairness bonus
FairnessBonus(last_gini) ==
    IF last_gini = <<>> THEN 0
    ELSE IF 10 * last_gini[1].num < last_gini[1].den THEN 15
    ELSE IF 10 * last_gini[1].num < 3 * last_gini[1].den THEN 10
    ELSE 0

\* lines 564-568: the bonus for high utilization
UtilizationBonus(total_eips, assigned_eips) ==
    IF 10 * assigned_eips > 8 * total_eips THEN 20
    ELSE IF 10 * assigned_eips > 6 * total_eips THEN 10
    ELSE 0

\* line 577, on a fraction with a positive denominator
Clamp(score) ==
    IF score.num < 0 THEN [num |-> 0, den |-> 1]
    ELSE IF score.num > 100 * score.den THEN [num |-> 100, den |-> 1]
    ELSE score

\* lines 553-579: the value cluster_eip_health_score is set to, as the exact
\* fraction num/den
EipHealthScore(total_eips, assigned_eips) ==
    IF total_eips > 0
    THEN Clamp([num |-> 50 * assigned_eips - 20 * (total_eips - assigned_eips)
                          + UtilizationBonus(total_eips, assigned_eips) * total_eips
                          + FairnessBonus(last_gini_coefficient) * total_eips,
                den |-> total_eips])
    ELSE [num |-> 0, den |-> 1]

\* line 586
ChangePenalty(recent_changes) == IF recent_changes * 2 < 50 THEN recent_changes * 2 ELSE 50

\* lines 581-589: the value cluster_eip_stability_score is set to
StabilityScore(history) ==
    LET stability_score ==
            IF Len(history) > 0 THEN 100 - ChangePenalty(Len(history)) ELSE 100
    IN IF stability_score > 0 THEN stability_score ELSE 0

----------------------------------------------------------------------------
(* Trend windows *)

\* a cleanup that empties the window
ClearedWindow(history, current_time) == <<>>

\* cleanup_old_data, lines 188-197: keep what is younger than an hour
KeepYounger(history, current_time) ==
    SelectSeqBy(history, {e \in Range(history) : current_time - e.timestamp < Horizon})

\* lines 1011-1013 and 1030-1031: keep what is later than an hour ago
KeepRecent(history, current_time) ==
    SelectSeqBy(history, {e \in Range(history) : e.timestamp > current_time - Horizon})

\* lines 1000-1001: eip_change, 0 while there is no previous_eip_assigned
EipChange(previous, assigned_count) ==
    IF previous.set THEN Abs(assigned_count - previous.value) ELSE 0

\* lines 1000-1006: a change event when the assigned count moved
TrackChange(history, previous, assigned_count, current_time) ==
    IF previous.set /\ Abs(assigned_count - previous.value) > 0
    THEN Append(history, [timestamp |-> current_time,
                          change |-> Abs(assigned_count - previous.value)])
    ELSE history

\* lines 896-909: a resource whose last condition is a success that follows an error
IsRecovery(item) ==
    LET c == item.conditions IN
    /\ Len(c) > 1
    /\ c[Len(c)] = "CloudResponseSuccess"
    /\ c[Len(c) - 1] = "CloudResponseError"

\* lines 886-909: the recoveries appended by the loop over the CPIC items, up to
\* the first item whose "status" is null, where .get raises AttributeError
RECURSIVE CpicRecoveries(_, _)
CpicRecoveries(items, current_time) ==
    IF items = <<>> \/ Head(items).statusNull THEN <<>>
    ELSE (IF IsRecovery(Head(items))
          THEN <<[timestamp |-> current_time, resource |-> Head(items).name]>>
          ELSE <<>>) \o CpicRecoveries(Tail(items), current_time)

CpicRaises(items) == \E i \in DOMAIN items : items[i].statusNull

----------------------------------------------------------------------------
(* The threads *)

Worker == "worker"
Initial == "initial"
Threads == {Worker, Initial}

\* node_list: the list the cycle obtained for itself, cached_nodes of line 208
\* or the list built at line 259; nodes: the third element of the triple
\* returned at line 231
LocInit ==
    [node_list |-> <<>>, eip_out |-> OcFail, eip_data |-> <<>>, cpic_data |-> <<>>,
     nodes |-> <<>>, configured |-> 0, assigned |-> 0, current_time |-> 0, eip_change |-> 0,
     recent_changes |-> <<>>]

\* main(), lines 1145-1156, and the defaults of the gauges it does not set; a
\* gauge declared with the label 'node' (lines 51-56) has no child, and no
\* value, until .labels(node=...) is called
RegistryInit ==
    [eips_configured |-> 0, eips_assigned |-> 0, eips_unassigned |-> 0,
     eip_utilization_percent |-> Utilization(0, 0),
     node_available |-> 0,
     node_eip_assigned |-> EmptyDict, node_eip_primary |-> EmptyDict,
     node_eip_secondary |-> EmptyDict,
     eip_cpic_mismatches_total |-> 0, eip_cpic_mismatches_node_mismatch |-> 0,
     eip_cpic_mismatches_missing_in_eip |-> 0, malfunctioning_eip_objects_count |-> 0,
     eip_changes_last_hour |-> 0, cpic_recoveries_last_hour |-> 0,
     eip_distribution_gini |-> Utilization(0, 0),
     cluster_eip_health_score |-> Utilization(0, 0),
     cluster_eip_stability_score |-> 0,
     scrape_errors |-> 0, last_scrape_timestamp |-> 0]

\* the values a cycle publishes at lines 858-867
Bundle(configured, assigned) ==
    [eips_configured |-> configured, eips_assigned |-> assigned,
     eips_unassigned |-> UnassignedCount(configured, assigned),
     eip_utilization_percent |-> Utilization(configured, assigned)]

CoreOf(reg) ==
    [eips_configured |-> reg.eips_configured, eips_assigned |-> reg.eips_assigned,
     eips_unassigned |-> reg.eips_unassigned,
     eip_utilization_percent |-> reg.eip_utilization_percent]

\* the worker loop is followed for MaxCycles cycles; initial_collection runs one
CycleLimit(t) == IF t = Worker THEN MaxCycles ELSE 1

NoPlan == [gap |-> 0, toggling |-> FALSE, recovered |-> 0, nodes |-> "steady"]

CollectorInit ==
    /\ now = T0
    /\ pc = [t \in Threads |-> "idle"]
    /\ loc = [t \in Threads |-> LocInit]
    /\ cycles = [t \in Threads |-> 0]
    /\ eip_nodes = <<>>
    /\ data_cache = <<>>
    /\ last_cache_time = 0
    /\ eip_changes_history = <<>>
    /\ cpic_recoveries_history = <<>>
    /\ previous_eip_assigned = [set |-> FALSE, value |-> 0]
    /\ last_update = [set |-> FALSE, value |-> 0]
    /\ registry = RegistryInit
    /\ scraped = <<>>
    /\ published = {Bundle(0, 0)}

\* no calculation is under study
CalcIdle ==
    calc = [eip |-> <<>>, available_nodes |-> 1, counts |-> <<>>,
            overcommitted |-> <<>>, gini |-> <<>>]

MainInit == CollectorInit /\ CalcIdle

\* the run the model follows: both threads, no scripted course
RunInit ==
    /\ budget = [t \in Threads |-> CycleLimit(t)]
    /\ plan = NoPlan

runVars == <<budget, plan, mm_in, mm_log, calc>>
collectorVars == <<eip_nodes, data_cache, last_cache_time, eip_changes_history,
                   cpic_recoveries_history, previous_eip_assigned, last_update>>

\* line 1116: the response of a /metrics request is returned before another
\* thread takes its next step (returning it touches nothing they read or write)
Returned == scraped' = <<>>

\* where a thread goes when collect_metrics returns: metrics_worker sleeps and
\* loops (lines 1104-1111), initial_collection ends (lines 1173-1180)
AfterCycle(t) == IF t = Worker THEN "idle" ELSE "done"

InCycle(t) == pc[t] \notin {"idle", "done"}

\* a thread whose cycle failed with nothing catching the failure
Uncaught(t) == "done"

\* where a thread goes when its cycle fails: collect_metrics catches every
\* Exception and returns False (lines 1057-1060, 1090-1095), and the loop of
\* metrics_worker has its own handler (lines 1108-1111)
AfterFailure(t) == AfterCycle(t)

\* a failure counted by collect_metrics and again by the handler of the loop
CountedTwice(reg) == [reg EXCEPT !.scrape_errors = @ + 2]

\* lines 1059 and 1094: scrape_errors.inc()
CountFailure(reg) == [reg EXCEPT !.scrape_errors = @ + 1]

\* a failing cycle that moves the timestamp as a completed one does
FailsAndStamps(t) ==
    /\ registry' = [CountFailure(registry) EXCEPT !.last_scrape_timestamp = now]
    /\ pc' = [pc EXCEPT ![t] = AfterFailure(t)]
    /\ loc' = [loc EXCEPT ![t] = LocInit]

\* collect_metrics returns False: lines 1057-1060 after a failed collection,
\* lines 1090-1095 after an exception
Fails(t) ==
    /\ registry' = CountFailure(registry)
    /\ pc' = [pc EXCEPT ![t] = AfterFailure(t)]
    /\ loc' = [loc EXCEPT ![t] = LocInit]

\* lines 1046-1053: a cycle starts with cleanup_old_data
Cleanup(t) ==
    /\ Returned
    /\ pc[t] = "idle"
    /\ cycles[t] < budget[t]
    /\ cycles' = [cycles EXCEPT ![t] = @ + 1]
    /\ eip_changes_history' = KeepYounger(eip_changes_history, now)
    /\ cpic_recoveries_history' = KeepYounger(cpic_recoveries_history, now)
    /\ loc' = [loc EXCEPT ![t] = LocInit]
    /\ pc' = [pc EXCEPT ![t] = "nodes"]
    /\ UNCHANGED <<now, eip_nodes, data_cache, last_cache_time, previous_eip_assigned,
                   last_update, registry, published, runVars>>

\* get_cached_data, lines 171-176
CachedNodes == IF now - last_cache_time < cache_ttl THEN data_cache ELSE <<>>

\* lines 209-212: a cached node list is used
NodesCached(t) ==
    /\ Returned
    /\ pc[t] = "nodes"
    /\ CachedNodes # <<>>
    /\ eip_nodes' = CachedNodes
    /\ loc' = [loc EXCEPT ![t].node_list = CachedNodes]
    /\ pc' = [pc EXCEPT ![t] = "eip_get"]
    /\ UNCHANGED <<now, cycles, data_cache, last_cache_time, eip_changes_history,
                   cpic_recoveries_history, previous_eip_assigned, last_update,
                   registry, published, runVars>>

\* lines 213-214: nothing usable is cached, get_eip_nodes runs `oc get nodes`
NodesMiss(t) ==
    /\ Returned
    /\ pc[t] = "nodes"
    /\ CachedNodes = <<>>
    /\ pc' = [pc EXCEPT ![t] = "nodes_get"]
    /\ UNCHANGED <<now, loc, cycles, collectorVars, registry, published, runVars>>

\* get_eip_nodes, lines 242-270, and line 215
NodesGet(t, source) ==
    /\ Returned
    /\ pc[t] = "nodes_get"
    /\ \E out \in source.nodes :
          IF out = OcFail
          THEN /\ Fails(t)
               /\ UNCHANGED eip_nodes
          ELSE IF JsonLoads(out) = <<>>
          THEN /\ eip_nodes' = <<>>
               /\ Fails(t)
          ELSE /\ eip_nodes' = JsonLoads(out)
               /\ registry' = [registry EXCEPT !.node_available = Len(JsonLoads(out))]
               /\ pc' = [pc EXCEPT ![t] = "cache"]
               /\ loc' = [loc EXCEPT ![t].node_list = JsonLoads(out)]
    /\ UNCHANGED <<now, cycles, data_cache, last_cache_time, eip_changes_history,
                   cpic_recoveries_history, previous_eip_assigned, last_update,
                   published, runVars>>

\* set_cached_data, lines 178-181, called at line 216
Cache(t) ==
    /\ Returned
    /\ pc[t] = "cache"
    /\ data_cache' = eip_nodes
    /\ last_cache_time' = now
    /\ pc' = [pc EXCEPT ![t] = "eip_get"]
    /\ UNCHANGED <<now, loc, cycles, eip_nodes, eip_changes_history,
                   cpic_recoveries_history, previous_eip_assigned, last_update,
                   registry, published, runVars>>

\* lines 219-221: `oc get eip`
EipGet(t, source) ==
    /\ Returned
    /\ pc[t] = "eip_get"
    /\ \E out \in source.eip :
          IF out = OcFail
          THEN Fails(t)
          ELSE /\ loc' = [loc EXCEPT ![t].eip_out = out]
               /\ pc' = [pc EXCEPT ![t] = "cpic_get"]
               /\ UNCHANGED registry
    /\ UNCHANGED <<now, cycles, collectorVars, published, runVars>>

\* lines 223-238 and 1056-1060: `oc get cloudprivateipconfig`, both payloads
\* parsed, the triple returned and tested with all()
CpicGet(t, source) ==
    /\ Returned
    /\ pc[t] = "cpic_get"
    /\ \E out \in source.cpic :
          IF \/ out = OcFail
             \/ ~Parses(loc[t].eip_out)
             \/ ~Parses(out)
             \/ eip_nodes = <<>>
          THEN Fails(t)
          ELSE /\ loc' = [loc EXCEPT ![t].eip_data = JsonLoads(loc[t].eip_out),
                                     ![t].eip_out = OcFail,
                                     ![t].cpic_data = JsonLoads(out),
                                     ![t].nodes = eip_nodes,
                                     ![t].node_list = <<>>]
               /\ pc' = [pc EXCEPT ![t] = "p_configured"]
               /\ UNCHANGED registry
    /\ UNCHANGED <<now, cycles, collectorVars, published, runVars>>

\* lines 840-858: the counts are computed, eips_configured is set
PubConfigured(t) ==
    /\ Returned
    /\ pc[t] = "p_configured"
    /\ LET configured_count == ConfiguredCount(loc[t].eip_data)
           assigned_count == AssignedCount(loc[t].eip_data)
       IN /\ loc' = [loc EXCEPT ![t].configured = configured_count,
                                ![t].assigned = assigned_count]
          /\ registry' = [registry EXCEPT !.eips_configured = configured_count]
    /\ pc' = [pc EXCEPT ![t] = "p_assigned"]
    /\ UNCHANGED <<now, cycles, collectorVars, published, runVars>>

\* line 859
PubAssigned(t) ==
    /\ Returned
    /\ pc[t] = "p_assigned"
    /\ registry' = [registry EXCEPT !.eips_assigned = loc[t].assigned]
    /\ pc' = [pc EXCEPT ![t] = "p_unassigned"]
    /\ UNCHANGED <<now, loc, cycles, collectorVars, published, runVars>>

\* lines 855 and 860
PubUnassigned(t) ==
    /\ Returned
    /\ pc[t] = "p_unassigned"
    /\ registry' = [registry EXCEPT
           !.eips_unassigned = UnassignedCount(loc[t].configured, loc[t].assigned)]
    /\ pc' = [pc EXCEPT ![t] = "p_utilization"]
    /\ UNCHANGED <<now, loc, cycles, collectorVars, published, runVars>>

\* lines 862-867
PubUtilization(t) ==
    /\ Returned
    /\ pc[t] = "p_utilization"
    /\ registry' = [registry EXCEPT
           !.eip_utilization_percent = Utilization(loc[t].configured, loc[t].assigned)]
    /\ published' = published \cup {Bundle(loc[t].configured, loc[t].assigned)}
    /\ pc' = [pc EXCEPT ![t] = "p_cpic"]
    /\ UNCHANGED <<now, loc, cycles, collectorVars, runVars>>

RECURSIVE SumChanges(_)
SumChanges(history) ==
    IF history = <<>> THEN 0 ELSE Head(history).change + SumChanges(Tail(history))

\* lines 869-1008 of process_all_metrics_optimized: the pass over the CPIC
\* items (an item with a null status raises, and collect_metrics counts the
\* exception at lines 1090-1095), the distribution, the mismatch gauges, the
\* health scores, the change event and the previous-assigned scalar
Aggregate(t) ==
    /\ Returned
    /\ pc[t] = "p_cpic"
    /\ LET current_time == now
           recovered == cpic_recoveries_history
                            \o CpicRecoveries(loc[t].cpic_data, current_time)
           node_eip_counts == NodeEipCounts(loc[t].eip_data, loc[t].nodes)
           mismatches ==
               detect_mismatches(loc[t].eip_data, loc[t].cpic_data, Len(loc[t].nodes))
           by_node == calculate_primary_secondary_eips(loc[t].eip_data, loc[t].nodes)
       IN IF CpicRaises(loc[t].cpic_data)
          THEN /\ cpic_recoveries_history' = recovered
               /\ Fails(t)
               /\ UNCHANGED <<eip_changes_history, previous_eip_assigned>>
          ELSE /\ registry' = [registry EXCEPT
                      !.node_eip_assigned =
                          LabelsSet(@, NodeEipCountsByNode(loc[t].eip_data, loc[t].nodes)),
                      !.node_eip_primary = LabelsSet(@, by_node.primary_by_node),
                      !.node_eip_secondary = LabelsSet(@, by_node.secondary_by_node),
                      !.eip_distribution_gini =
                          calculate_distribution_metrics(node_eip_counts, <<@>>)[1],
                      !.eip_cpic_mismatches_total = mismatches.total,
                      !.eip_cpic_mismatches_node_mismatch = mismatches.node_mismatch,
                      !.eip_cpic_mismatches_missing_in_eip = mismatches.missing_in_eip,
                      !.malfunctioning_eip_objects_count =
                          MalfunctioningCount(mismatches),
                      !.cluster_eip_health_score =
                          EipHealthScore(loc[t].configured, loc[t].assigned),
                      !.cluster_eip_stability_score =
                          StabilityScore(eip_changes_history)]
               /\ cpic_recoveries_history' = recovered
               /\ eip_changes_history' =
                      TrackChange(eip_changes_history, previous_eip_assigned,
                                  loc[t].assigned, current_time)
               /\ previous_eip_assigned' = [set |-> TRUE, value |-> loc[t].assigned]
               /\ loc' = [loc EXCEPT ![t].current_time = current_time,
                                     ![t].eip_change =
                                         EipChange(previous_eip_assigned, loc[t].assigned),
                                     ![t].eip_data = <<>>, ![t].cpic_data = <<>>]
               /\ pc' = [pc EXCEPT ![t] = "p_trim"]
    /\ UNCHANGED <<now, cycles, eip_nodes, data_cache, last_cache_time, last_update,
                   published, runVars>>

\* lines 1010-1012: the change events of the last hour are copied to a new list
TrimRead(t) ==
    /\ Returned
    /\ pc[t] = "p_trim"
    /\ loc' = [loc EXCEPT ![t].recent_changes =
                   KeepRecent(eip_changes_history, loc[t].current_time)]
    /\ pc' = [pc EXCEPT ![t] = "p_write"]
    /\ UNCHANGED <<now, cycles, collectorVars, registry, published, runVars>>

\* lines 1013-1035: the new list replaces the window, the recovery window is
\* cut to the last hour, the trend gauges and node_available are set
TrimWrite(t) ==
    /\ Returned
    /\ pc[t] = "p_write"
    /\ LET recent_changes == loc[t].recent_changes
           recent_recoveries == KeepRecent(cpic_recoveries_history, loc[t].current_time)
       IN /\ eip_changes_history' = recent_changes
          /\ cpic_recoveries_history' = recent_recoveries
          /\ registry' = [registry EXCEPT
                 !.eip_changes_last_hour = SumChanges(recent_changes),
                 !.cpic_recoveries_last_hour = Len(recent_recoveries),
                 !.node_available = Len(loc[t].nodes)]
    /\ loc' = [loc EXCEPT ![t].recent_changes = <<>>]
    /\ pc' = [pc EXCEPT ![t] = "stamp"]
    /\ UNCHANGED <<now, cycles, eip_nodes, data_cache, last_cache_time,
                   previous_eip_assigned, last_update, published, runVars>>

\* lines 1080-1088: the cycle ends well
Stamp(t) ==
    /\ Returned
    /\ pc[t] = "stamp"
    /\ registry' = [registry EXCEPT !.last_scrape_timestamp = now]
    /\ last_update' = [set |-> TRUE, value |-> now]
    /\ pc' = [pc EXCEPT ![t] = AfterCycle(t)]
    /\ loc' = [loc EXCEPT ![t] = LocInit]
    /\ UNCHANGED <<now, cycles, eip_nodes, data_cache, last_cache_time,
                   eip_changes_history, cpic_recoveries_history,
                   previous_eip_assigned, published, runVars>>

\* a read that has the worker begin a collection when it is idle
MetricsCollects ==
    /\ scraped' = <<CoreOf(registry)>>
    /\ pc' = [pc EXCEPT ![Worker] = IF @ = "idle" THEN "nodes" ELSE @]
    /\ UNCHANGED <<now, loc, cycles, collectorVars, registry, published, runVars>>

\* /metrics, lines 1113-1116: generate_latest() renders the gauges as they are now
Metrics ==
    /\ scraped' = <<CoreOf(registry)>>
    /\ UNCHANGED <<now, pc, loc, cycles, collectorVars, registry, published, runVars>>

Computing(t) ==
    pc[t] \in {"p_configured", "p_assigned", "p_unassigned", "p_utilization",
               "p_cpic", "p_trim", "p_write", "stamp"}

\* time passes; the seconds go by in sleep() and in the `oc` subprocesses, not
\* between two statements of the aggregation
Tick ==
    /\ Returned
    /\ \A t \in Threads : ~Computing(t)
    /\ \E d \in TickSteps :
          /\ now + d <= T0 + MaxTicks * d
          /\ now' = now + d
    /\ UNCHANGED <<pc, loc, cycles, collectorVars, registry, published, runVars>>

Step(t, source) ==
    \/ Cleanup(t) \/ NodesCached(t) \/ NodesMiss(t) \/ NodesGet(t, source) \/ Cache(t)
    \/ EipGet(t, source) \/ CpicGet(t, source)
    \/ PubConfigured(t) \/ PubAssigned(t) \/ PubUnassigned(t) \/ PubUtilization(t)
    \/ Aggregate(t) \/ TrimRead(t) \/ TrimWrite(t) \/ Stamp(t)

Init == MainInit /\ RunInit /\ MmIdle

Next ==
    \/ \E t \in Threads : Step(t, FullSource)
    \/ Tick
    \/ Metrics

Spec == Init /\ [][Next]_vars

----------------------------------------------------------------------------
(* The same program with a snapshot source that answers one snapshot per   *)
(* kind of outcome, under the fairness of the scheduler: a thread that can *)
(* take a step takes it (an `oc` call returns within its 30 s timeout, a   *)
(* sleep ends).                                                            *)

LiveSource ==
    [eip |-> {OcFail,
              OcJson(<< EipItem("r1", <<"ip1", "ip2">>,
                                <<Bind("ip1", "n1"), Bind("ip2", "n2")>>) >>)},
     cpic |-> {OcFail, OcGarbage} \cup {OcJson(d) : d \in CpicDocs},
     nodes |-> {OcFail, OcJson(<<>>), OcJson(<<"n1", "n2">>)}]

LiveNext ==
    \/ \E t \in Threads : Step(t, LiveSource)
    \/ Tick
    \/ Metrics

LiveSpec ==
    /\ Init
    /\ [][LiveNext]_vars
    /\ \A t \in Threads : WF_vars(Step(t, LiveSource))

----------------------------------------------------------------------------
(* The worker loop alone over a long run: the cluster follows a course     *)
(* fixed at the start (the seconds from one cycle to the next, whether the *)
(* assigned count moves from cycle to cycle, whether a reconciliation      *)
(* resource shows a recovery, which nodes are eligible), every query       *)
(* succeeds, and the clock moves while the loop sleeps.  With a gap above  *)
(* cache_ttl the node cache has expired whenever the loop wakes; with a    *)
(* gap of 5 s every other cycle finds the list cached.                     *)

TrendPlans ==
    [gap : {5, 30, 60}, toggling : BOOLEAN, recovered : {0, 1},
     nodes : {"steady", "shrinking", "vanishing", "none"}]

TrendInit ==
    /\ MainInit
    /\ budget = [t \in Threads |-> IF t = Worker THEN TrendCycles ELSE 0]
    /\ plan \in TrendPlans
    /\ MmIdle

\* two bindings in the odd cycles; one in the even cycles of a toggling course
TrendEipDoc ==
    IF plan.toggling /\ cycles[Worker] % 2 = 0
    THEN << EipItem("r1", <<"ip1", "ip2">>, <<Bind("ip1", "n1")>>) >>
    ELSE << EipItem("r1", <<"ip1", "ip2">>, <<Bind("ip1", "n1"), Bind("ip2", "n2")>>) >>

TrendCpicDoc ==
    << CpicItem("ip1", "n1", "n1",
                IF plan.recovered = 1
                THEN <<"CloudResponseError", "CloudResponseSuccess">>
                ELSE <<"CloudResponseSuccess">>) >>

\* the nodes labelled egress-assignable: two throughout, two in the first
\* cycle and one afterwards, two in the first two cycles and none afterwards,
\* or none
TrendNodes ==
    IF plan.nodes = "none" THEN <<>>
    ELSE IF plan.nodes = "vanishing" /\ cycles[Worker] > 2 THEN <<>>
    ELSE IF plan.nodes = "shrinking" /\ cycles[Worker] > 1 THEN <<"n1">>
    ELSE <<"n1", "n2">>

PlannedSource ==
    [eip |-> {OcJson(TrendEipDoc)},
     cpic |-> {OcJson(TrendCpicDoc)},
     nodes |-> {OcJson(TrendNodes)}]

\* when the cycle after the cycles begun so far is due
TrendDue == T0 + cycles[Worker] * plan.gap

\* metrics_worker, line 1107: time.sleep(scrape_interval)
Sleep ==
    /\ Returned
    /\ pc[Worker] = "idle"
    /\ cycles[Worker] < budget[Worker]
    /\ now < TrendDue
    /\ now' = TrendDue
    /\ UNCHANGED <<pc, loc, cycles, collectorVars, registry, published, runVars>>

\* metrics_worker, lines 1104-1106: the loop calls collect_metrics
Wake ==
    /\ now = TrendDue
    /\ Cleanup(Worker)

TrendNext ==
    \/ Sleep
    \/ Wake
    \/ NodesCached(Worker)
    \/ NodesMiss(Worker)
    \/ NodesGet(Worker, PlannedSource)
    \/ Cache(Worker)
    \/ EipGet(Worker, PlannedSource)
    \/ CpicGet(Worker, PlannedSource)
    \/ PubConfigured(Worker)
    \/ PubAssigned(Worker)
    \/ PubUnassigned(Worker)
    \/ PubUtilization(Worker)
    \/ Aggregate(Worker)
    \/ TrimRead(Worker)
    \/ TrimWrite(Worker)
    \/ Stamp(Worker)

SpecTrend == TrendInit /\ [][TrendNext]_vars

----------------------------------------------------------------------------
(* detect_mismatches run cycle after cycle on bounded snapshots *)

MismatchInit == MainInit /\ RunInit /\ MmInit

MismatchNext == MmDetect \/ MmResnapshot

SpecMismatch == MismatchInit /\ [][MismatchNext]_vars

----------------------------------------------------------------------------
(* The pure calculations of the aggregation, applied to bounded arguments *)

\* spec.egressIPs of a resource that requests k addresses
RequestedIps(k) == [j \in 1..k |-> "ip"]

CalcEipDocs ==
    LET one == {<<EipItem("r1", RequestedIps(k), <<>>)>> : k \in 0..MaxRequested}
        two == {<<EipItem("r2", RequestedIps(k), <<>>)>> : k \in 0..MaxRequested}
    IN {<<>>} \cup one \cup {a \o b : a \in one, b \in two}

CalcCounts ==
    UNION {[1..n -> 0..MaxPerNode] : n \in 0..CalcNodes}

CalcInputs ==
    [eip : CalcEipDocs, available_nodes : 1..CalcNodes, counts : CalcCounts,
     overcommitted : {<<>>}, gini : {<<>>}]

CalcInit == CollectorInit /\ RunInit /\ MmIdle /\ calc \in CalcInputs

calcFrame ==
    <<now, pc, loc, cycles, eip_nodes, data_cache, last_cache_time,
      eip_changes_history, cpic_recoveries_history, previous_eip_assigned,
      last_update, registry, scraped, published, budget, plan, mm_in, mm_log>>

\* lines 981-983
Overcommitted ==
    /\ calc.overcommitted = <<>>
    /\ calc' = [calc EXCEPT
           !.overcommitted = <<calculate_overcommitted(calc.eip, calc.available_nodes)>>]
    /\ UNCHANGED calcFrame

\* line 960
Distribution ==
    /\ calc.gini = <<>>
    /\ calc' = [calc EXCEPT
           !.gini = calculate_distribution_metrics(calc.counts, calc.gini)]
    /\ UNCHANGED calcFrame

CalcNext == Overcommitted \/ Distribution

SpecCalc == CalcInit /\ [][CalcNext]_vars

----------------------------------------------------------------------------
(* Claims *)

Quiescent == \A t \in Threads : ~Computing(t)

\* C1: after every completed aggregation the published values satisfy
\* configured = assigned + unassigned.
C1_ConfiguredIsSum ==
    (last_update.set /\ Quiescent)
        => registry.eips_configured = registry.eips_assigned + registry.eips_unassigned

\* C2: after every completed aggregation the published utilization is in
\* [0,100] when configured > 0 and exactly 0 when configured = 0.
C2_UtilizationInRange ==
    (last_update.set /\ Quiescent)
        => /\ registry.eips_configured > 0
                => LET u == registry.eip_utilization_percent
                   IN 0 <= u.num /\ u.num <= 100 * u.den
           /\ registry.eips_configured = 0
                => registry.eip_utilization_percent.num = 0

Fetching(t) == pc[t] \in {"nodes_get", "eip_get", "cpic_get"}

\* C3: the three inputs degrade independently: a fetch that fails does not end
\* the collection, and the inputs fetched before it are returned as fetched.
C3_DegradeIndependently ==
    [][\A t \in Threads :
         /\ (Fetching(t) /\ pc'[t] # pc[t]) => pc'[t] \notin {"idle", "done"}
         /\ (pc[t] = "cpic_get" /\ Parses(loc[t].eip_out) /\ pc'[t] # pc[t])
               => loc'[t].eip_data = JsonLoads(loc[t].eip_out)]_vars

\* C4: the collection loop never stops: the worker is never in a final state,
\* and after any cycle, however it ended, it begins the next one.
C4_WorkerKeepsCycling ==
    /\ [](pc[Worker] # "done")
    /\ \A k \in 1..(MaxCycles - 1) :
          (pc[Worker] = "idle" /\ cycles[Worker] = k) ~> (cycles[Worker] = k + 1)

\* a second cycle of the worker begun after a first one that failed
C4_Witness ==
    /\ cycles[Worker] = 2
    /\ InCycle(Worker)
    /\ cycles[Initial] = 0
    /\ registry.scrape_errors = 1
    /\ ~last_update.set

\* C5: at no time are two collect-aggregate-publish cycles in progress at once.
C5_OneCycleAtATime == ~(InCycle(Worker) /\ InCycle(Initial))

\* C6: a read of the registry returns values that all come from one cycle,
\* or all from the initial defaults.
C6_ReadsOneCycle == scraped # <<>> => scraped[1] \in published

\* C7: a cycle in which a fetch failed still completes and sets the
\* last-successful-publish timestamp to the current time.
C7_DegradedCycleStamps ==
    [][\A t \in Threads :
         (Fetching(t) /\ pc'[t] \in {"idle", "done"})
            => registry'.last_scrape_timestamp = now]_vars

AfterCleanup(t) == pc[t] = "nodes"

\* C8: after the per-cycle cleanup each of the two trend windows holds only
\* entries younger than 3600 seconds, and at most 50 of them.
C8_WindowsBounded ==
    AfterCleanup(Worker)
        => \A history \in {eip_changes_history, cpic_recoveries_history} :
              /\ \A i \in DOMAIN history : now - history[i].timestamp < 3600
              /\ Len(history) <= 50

\* C9: in the result of one detection each IP is counted under at most one
\* class, and the total equals the sum of the three per-class counts and the
\* number of classified IPs.
C9_ClassesPartition ==
    \A i \in DOMAIN mm_log :
        LET m == mm_log[i].out
            by_ip == m.mismatch_by_ip
            CountOf(type) == Cardinality({ip \in DOMAIN by_ip : by_ip[ip] = type})
        IN /\ m.total = m.node_mismatch + m.missing_in_eip + m.missing_in_cpic
           /\ m.total = Cardinality(DOMAIN by_ip)
           /\ m.node_mismatch = CountOf("node_mismatch")
           /\ m.missing_in_eip = CountOf("missing_in_eip")
           /\ m.missing_in_cpic = CountOf("missing_in_cpic")

\* a result with two IPs under two different classes
C9_Witness ==
    \E i \in DOMAIN mm_log :
        /\ mm_log[i].out.total = 2
        /\ mm_log[i].out.node_mismatch = 1
        /\ mm_log[i].out.missing_in_cpic = 1

----------------------------------------------------------------------------
(* The two views of a snapshot, read off the payloads themselves *)

\* the nodes the status items of the assignment resources bind an IP to
BoundNodes(eip, ip) ==
    UNION { {eip[r].items[j].node : j \in {k \in DOMAIN eip[r].items :
                                              /\ eip[r].items[k].egressIP = ip
                                              /\ eip[r].items[k].node # ""}} :
            r \in DOMAIN eip }

\* the nodes the reconciliation resources of an IP report: status.node, or
\* spec.node where there is no status.node
ReportedNodes(cpic, ip) ==
    { IF cpic[k].statusNode # "" THEN cpic[k].statusNode ELSE cpic[k].specNode :
        k \in {j \in DOMAIN cpic : cpic[j].name = ip} } \ {""}

ClassOf(m, ip) ==
    IF ip \in DOMAIN m.mismatch_by_ip THEN m.mismatch_by_ip[ip] ELSE "none"

Disagree(in, ip) ==
    \E c \in ReportedNodes(in.cpic, ip), e \in BoundNodes(in.eip, ip) : c # e

SingleValued(in, ip) ==
    /\ Cardinality(BoundNodes(in.eip, ip)) <= 1
    /\ Cardinality(ReportedNodes(in.cpic, ip)) <= 1

\* the snapshot holds one binding and one reconciliation resource, of the same
\* IP, and their nodes differ
LoneDisagreement(in) ==
    /\ Len(in.eip) = 1 /\ Len(in.eip[1].items) = 1 /\ Len(in.cpic) = 1
    /\ in.eip[1].items[1].egressIP = in.cpic[1].name
    /\ Disagree(in, in.cpic[1].name)

\* C11: an IP is classified node_mismatch exactly when a reconciliation
\* resource reports a node for it and a status binding binds it to a different
\* node (each view naming one node per IP); the same node in both views gives
\* no classification; one disagreeing IP alone gives one node_mismatch and a
\* malfunctioning count of 1.
C11_NodeMismatch ==
    \A i \in DOMAIN mm_log : \A ip \in MmIPs :
        LET in == mm_log[i].in
            m == mm_log[i].out
        IN /\ ClassOf(m, ip) = "node_mismatch" => Disagree(in, ip)
           /\ (SingleValued(in, ip) /\ Disagree(in, ip))
                 => ClassOf(m, ip) = "node_mismatch"
           /\ (/\ SingleValued(in, ip)
               /\ BoundNodes(in.eip, ip) # {}
               /\ BoundNodes(in.eip, ip) = ReportedNodes(in.cpic, ip))
                 => ClassOf(m, ip) = "none"
           /\ LoneDisagreement(in)
                 => /\ m.node_mismatch = 1 /\ m.total = 1
                    /\ Cardinality(DOMAIN m.mismatch_by_resource) = 1

\* a lone disagreement where status.node and spec.node of the reconciliation
\* resource differ and the binding names the spec node
C11_Witness ==
    \E i \in DOMAIN mm_log :
        /\ LoneDisagreement(mm_log[i].in)
        /\ mm_log[i].in.cpic[1].specNode = mm_log[i].in.eip[1].items[1].node
        /\ mm_log[i].out.node_mismatch = 1

\* the assignment resources whose spec requests an IP
Requesting(eip, ip) ==
    {r \in DOMAIN eip : \E j \in DOMAIN eip[r].egressIPs : eip[r].egressIPs[j] = ip}

\* the number of status items of a resource that bind an IP to a node
BoundCount(item) ==
    Cardinality({j \in DOMAIN item.items :
                    item.items[j].egressIP # "" /\ item.items[j].node # ""})

\* C12: every IP known to reconciliation and bound in no assignment status is
\* classified missing_in_eip, unless the bound-IP count of the resource owning
\* it equals the number of eligible nodes; an IP no resource owns is classified.
C12_MissingInEip ==
    \A i \in DOMAIN mm_log : \A ip \in MmIPs :
        LET in == mm_log[i].in
            m == mm_log[i].out
            owners == Requesting(in.eip, ip)
        IN (ReportedNodes(in.cpic, ip) # {} /\ BoundNodes(in.eip, ip) = {})
              => /\ owners = {} => ClassOf(m, ip) = "missing_in_eip"
                 /\ \A r \in owners :
                       owners = {r}
                          => (ClassOf(m, ip) = "missing_in_eip"
                                <=> BoundCount(in.eip[r]) # in.available_nodes)

\* a reconciliation resource for the IP exists in the snapshot
HasCpic(cpic, ip) == \E j \in DOMAIN cpic : cpic[j].name = ip

\* C13: an IP bound to a node in assignment status is classified
\* missing_in_cpic if and only if the snapshot holds no reconciliation resource
\* for it, whether or not that resource names a node.
C13_MissingInCpic ==
    \A i \in DOMAIN mm_log : \A ip \in MmIPs :
        LET in == mm_log[i].in
            m == mm_log[i].out
        IN BoundNodes(in.eip, ip) # {}
              => (ClassOf(m, ip) = "missing_in_cpic" <=> ~HasCpic(in.cpic, ip))

\* the resources that own an IP: those whose status binds it to a node, or,
\* where none does, those whose spec requests it
Owners(eip, ip) ==
    LET binding == {r \in DOMAIN eip :
                       \E j \in DOMAIN eip[r].items :
                           eip[r].items[j].egressIP = ip /\ eip[r].items[j].node # ""}
    IN IF binding # {} THEN binding ELSE Requesting(eip, ip)

\* C14: the published malfunctioning count is the number of distinct
\* assignment resources that own at least one IP classified in that cycle: a
\* resource with several mismatched IPs counts once, one with none does not.
C14_Malfunctioning ==
    \A i \in DOMAIN mm_log :
        LET in == mm_log[i].in
            m == mm_log[i].out
            classified == DOMAIN m.mismatch_by_ip
            touched == {r \in DOMAIN in.eip : \E ip \in classified : r \in Owners(in.eip, ip)}
            unshared == \A ip \in classified : Cardinality(Owners(in.eip, ip)) = 1
        IN /\ mm_log[i].malfunctioning <= Cardinality(touched)
           /\ classified # {} => mm_log[i].malfunctioning >= 1
           /\ unshared => mm_log[i].malfunctioning = Cardinality(touched)

\* one resource with two mismatched IPs, counted once
C14_Witness ==
    \E i \in DOMAIN mm_log :
        /\ Len(mm_log[i].in.eip) = 1
        /\ mm_log[i].out.total = 2
        /\ mm_log[i].malfunctioning = 1

\* the status items of a resource that name a node
NodeBoundItems(item) == {j \in DOMAIN item.items : item.items[j].node # ""}

\* C15: the critical count is the number of assignment resources with no
\* working assignment: a resource counts if and only if it has no status
\* binding with a node or every node-bound IP of it is in the mismatch set.
C15_Critical ==
    \A i \in DOMAIN mm_log :
        LET in == mm_log[i].in
            mismatch_set == DOMAIN mm_log[i].out.mismatch_by_ip
            counted == {r \in DOMAIN in.eip :
                          \/ NodeBoundItems(in.eip[r]) = {}
                          \/ \A j \in NodeBoundItems(in.eip[r]) :
                                in.eip[r].items[j].egressIP \in mismatch_set}
        IN /\ mm_log[i].critical = Cardinality(counted)
           /\ \A r \in DOMAIN in.eip : in.eip[r].items = <<>> => r \in counted

\* two resources: one whose bound IP is missing from reconciliation, and one
\* working resource whose bound IP has no mismatch
C15_Witness ==
    \E i \in DOMAIN mm_log :
        /\ Len(mm_log[i].in.eip) = 2
        /\ NodeBoundItems(mm_log[i].in.eip[1]) # {}
        /\ mm_log[i].out.missing_in_cpic = 1
        /\ mm_log[i].out.total = 1
        /\ "ip2" \notin DOMAIN mm_log[i].out.mismatch_by_ip
        /\ mm_log[i].critical = 1

\* C16: the overcommitted-IP total is the sum over the assignment resources of
\* max(0, requested IPs - eligible nodes); 5 requested IPs with 3 eligible
\* nodes give 2.
C16_Overcommitted ==
    calc.overcommitted # <<>>
        => LET over(r) == IF Len(calc.eip[r].egressIPs) - calc.available_nodes > 0
                          THEN Len(calc.eip[r].egressIPs) - calc.available_nodes
                          ELSE 0
               total[k \in 0..Len(calc.eip)] ==
                   IF k = 0 THEN 0 ELSE total[k - 1] + over(k)
           IN /\ calc.overcommitted[1] = total[Len(calc.eip)]
              /\ (\A r \in DOMAIN calc.eip :
                     Len(calc.eip[r].egressIPs) <= calc.available_nodes)
                    => calc.overcommitted[1] = 0

\* the claim's example next to a resource that requests fewer IPs than there
\* are nodes
C16_Witness ==
    /\ Len(calc.eip) = 2
    /\ Len(calc.eip[1].egressIPs) = 5
    /\ Len(calc.eip[2].egressIPs) = 1
    /\ calc.available_nodes = 3
    /\ calc.overcommitted = <<2>>

\* C17: for every non-empty sequence of non-negative per-node counts the Gini
\* coefficient lies in [0,1], and it is 0 when all counts are equal.
C17_GiniInRange ==
    (calc.gini # <<>> /\ calc.counts # <<>>)
        => LET g == calc.gini[1] IN
           /\ g.den > 0
           /\ 0 <= g.num /\ g.num <= g.den
           /\ (\A j \in DOMAIN calc.counts : calc.counts[j] = calc.counts[1])
                 => g.num = 0

\* unequal counts given out of order, and a coefficient strictly inside (0,1)
C17_Witness ==
    /\ calc.counts = <<3, 0, 1>>
    /\ calc.gini # <<>>
    /\ calc.gini[1].num > 0
    /\ calc.gini[1].num < calc.gini[1].den

Aggregating(t) == pc[t] = "p_cpic" /\ pc'[t] = "p_trim"

\* C18: with configured > 0 the health score of a cycle includes a fairness
\* bonus keyed on the Gini value g of the previous completed cycle: +15 when
\* g < 0.1, +10 when 0.1 <= g < 0.3, before the clamp to [0,100].
C18_FairnessBonus ==
    [][\A t \in Threads :
         (Aggregating(t) /\ last_update.set /\ loc[t].configured > 0)
            => LET g == registry.eip_distribution_gini
                   total == loc[t].configured
                   assigned == loc[t].assigned
                   bonus == IF 10 * g.num < g.den THEN 15
                            ELSE IF 10 * g.num < 3 * g.den THEN 10 ELSE 0
               IN registry'.cluster_eip_health_score =
                      Clamp([num |-> 50 * assigned - 20 * (total - assigned)
                                        + UtilizationBonus(total, assigned) * total
                                        + bonus * total,
                             den |-> total])]_vars

AggregationDone(t) == pc[t] = "stamp"

\* C19: the stability score a cycle publishes is 100 - min(50, 2k), k the
\* number of change events of the last hour, the cycle's own event included;
\* it lies in [50,100].
C19_StabilityScore ==
    AggregationDone(Worker)
        => LET k == Len(eip_changes_history)
           IN /\ registry.cluster_eip_stability_score
                    = 100 - (IF 2 * k < 50 THEN 2 * k ELSE 50)
              /\ registry.cluster_eip_stability_score >= 50
              /\ registry.cluster_eip_stability_score <= 100

Completing(t) == pc[t] = "p_write" /\ pc'[t] = "stamp"

\* C20: every completed aggregation compares the assigned count with the
\* previous-assigned scalar: a change event of magnitude |current - previous|
\* is appended to the window if and only if it is non-zero, the first
\* aggregation appends none, and afterwards the scalar is the current count.
C20_ChangeTracking ==
    [][\A t \in Threads :
         /\ Aggregating(t)
               => LET magnitude == IF previous_eip_assigned.set
                                   THEN Abs(loc[t].assigned - previous_eip_assigned.value)
                                   ELSE 0
                  IN /\ eip_changes_history' =
                           IF magnitude # 0
                           THEN Append(eip_changes_history,
                                       [timestamp |-> now, change |-> magnitude])
                           ELSE eip_changes_history
                     /\ previous_eip_assigned' = [set |-> TRUE, value |-> loc[t].assigned]
         /\ Completing(t)
               => /\ previous_eip_assigned'.value = loc[t].assigned
                  /\ loc[t].eip_change # 0
                        <=> \E i \in DOMAIN eip_changes_history' :
                               eip_changes_history'[i] =
                                   [timestamp |-> loc[t].current_time,
                                    change |-> loc[t].eip_change]]_vars

\* the recovery events the window holds for one reconciliation resource
RecoveriesOf(resource) ==
    {i \in DOMAIN cpic_recoveries_history :
        cpic_recoveries_history[i].resource = resource}

\* C21: a reconciliation resource whose latest condition is a success that
\* follows an error counts as one recovery event: cycles that see the same
\* condition history again add none, so while the snapshot is unchanged the
\* window holds at most one event for it and the recoveries-in-last-hour value
\* does not exceed the number of such resources.
C21_RecoveryOnce ==
    /\ \A i \in DOMAIN TrendCpicDoc :
          Cardinality(RecoveriesOf(TrendCpicDoc[i].name)) <= 1
    /\ registry.cpic_recoveries_last_hour
          <= Cardinality({i \in DOMAIN TrendCpicDoc : IsRecovery(TrendCpicDoc[i])})

\* the steps of a cycle around the node cache
ChecksCache(t) == pc[t] = "nodes" /\ pc'[t] # "nodes"
StoresNodes(t) == pc[t] = "cache" /\ pc'[t] # "cache"
ReturnsInputs(t) == pc[t] = "cpic_get" /\ pc'[t] = "p_configured"

\* C22: the node list is read through a cache with a TTL of 10 seconds: a
\* collection that starts less than 10 seconds after the list was cached
\* issues no node query and uses the cached list; one that starts 10 seconds
\* or more after it, or with nothing cached, issues a node query and on
\* success stores the fresh list in the cache with the current time.
C22_NodeCache ==
    [][\A t \in Threads :
         /\ ChecksCache(t)
               => IF data_cache # <<>> /\ now - last_cache_time < 10
                  THEN /\ pc'[t] = "eip_get"
                       /\ loc'[t].node_list = data_cache
                  ELSE pc'[t] = "nodes_get"
         /\ StoresNodes(t)
               => /\ data_cache' = loc[t].node_list
                  /\ last_cache_time' = now
         /\ ReturnsInputs(t)
               => loc'[t].nodes = loc[t].node_list]_vars

\* lines 31-96: the metrics the module declares, as far as the model follows
\* them, and those declared with the label 'node'
Declared == DOMAIN RegistryInit
LabelledByNode == {"node_eip_assigned", "node_eip_primary", "node_eip_secondary"}

\* generate_latest() renders a value for the metric: a gauge without labels
\* always has one, a labelled gauge has one per child
HasValue(reg, name) ==
    /\ name \in DOMAIN reg
    /\ name \in LabelledByNode => DOMAIN reg[name] # {}

\* C23: from process start on, before the first successful cycle and in every
\* later state, every declared metric is present in the registry with a
\* defined value (0 where nothing has been computed).
C23_AlwaysPresent == \A name \in Declared : HasValue(registry, name)

\* a cycle of the worker has ended
CycleEnded(t) == pc[t] = "idle" /\ cycles[t] >= 1

\* C24: an empty eligible node set is a legitimate input: when the node query
\* succeeds and returns no nodes, the cycle completes, publishes an
\* available-node count of 0 and is not counted as a failed cycle.
C24_EmptyNodeSet ==
    (plan.nodes = "none" /\ CycleEnded(Worker))
        => /\ registry.scrape_errors = 0
           /\ last_update.set
           /\ registry.node_available = 0

\* C25: after a cycle the per-node values are those of the cycle's eligible
\* node set only: the distribution statistics are computed over one count per
\* eligible node, and a node that is no longer eligible has no per-node entry
\* left in the registry.
C25_CurrentNodesOnly ==
    [][\A t \in Threads :
         Aggregating(t)
            => LET nodes == loc[t].nodes
               IN /\ registry'.eip_distribution_gini =
                        Gini(NodeEipCounts(loc[t].eip_data, nodes))
                  /\ \A gauge \in LabelledByNode :
                        DOMAIN registry'[gauge] = Range(nodes)]_vars

\* a step that serves a registry read
Reads == scraped' # <<>>

\* C26: serving a registry read never triggers collection and changes no
\* engine state: the registry values, the node cache, the trend windows, the
\* previous-assigned scalar and the last-successful-publish timestamp are
\* unchanged, and no thread begins a cycle or issues a snapshot-source call.
C26_ReadIsPure ==
    [][Reads => UNCHANGED <<registry, eip_nodes, data_cache, last_cache_time,
                            eip_changes_history, cpic_recoveries_history,
                            previous_eip_assigned, last_update, pc, cycles, loc>>]_vars

\* a read served while one thread is fetching and a cycle has completed before
C26_Witness ==
    /\ scraped # <<>>
    /\ last_update.set
    /\ \E t \in Threads : Fetching(t)

\* the stage of collect_metrics a position belongs to: 0 outside a cycle,
\* 1 collecting (lines 1053-1056), 2 aggregating (line 1063), 3 recording the
\* publish (lines 1080-1083)
StageOf(position) ==
    IF position \in {"idle", "done"} THEN 0
    ELSE IF position \in {"nodes", "nodes_get", "cache", "eip_get", "cpic_get"} THEN 1
    ELSE IF position = "stamp" THEN 3
    ELSE 2

\* the step with which a cycle of the thread ends in failure, or completes
FailsNow(t) == StageOf(pc[t]) \in {1, 2} /\ StageOf(pc'[t]) = 0
CompletesNow(t) == StageOf(pc[t]) = 3 /\ StageOf(pc'[t]) = 0

\* C27: within a cycle the stages run in the order collect, aggregate,
\* publish; the last-successful-publish timestamp is set only at the end of a
\* cycle whose collection returned all inputs and whose aggregation finished
\* without an exception; a cycle that fails at collection or raises during
\* aggregation does not move it, and it never decreases.
C27_StampOnlyOnSuccess ==
    [][/\ \A t \in Threads :
             /\ StageOf(pc'[t]) \in {StageOf(pc[t]), StageOf(pc[t]) + 1, 0}
             /\ StageOf(pc[t]) = 0 => StageOf(pc'[t]) \in {0, 1}
             /\ FailsNow(t)
                   => registry'.last_scrape_timestamp = registry.last_scrape_timestamp
             /\ CompletesNow(t) => registry'.last_scrape_timestamp = now
       /\ registry'.last_scrape_timestamp # registry.last_scrape_timestamp
             => \E t \in Threads : CompletesNow(t)
       /\ registry'.last_scrape_timestamp >= registry.last_scrape_timestamp]_vars

\* the worker's second cycle has failed, ten seconds after its first completed
C27_Witness ==
    /\ cycles[Worker] = 2
    /\ cycles[Initial] = 0
    /\ pc[Worker] = "idle"
    /\ registry.scrape_errors = 1
    /\ registry.last_scrape_timestamp = T0
    /\ now > T0

\* C28: every failed cycle is counted exactly once: a cycle that fails at
\* collection or raises during aggregation adds exactly 1 to the scrape-error
\* counter, and no other step, a completing cycle included, changes it.
C28_FailuresCountedOnce ==
    [][registry'.scrape_errors =
           registry.scrape_errors + Cardinality({t \in Threads : FailsNow(t)})]_vars

\* all three cycles have ended: two failed, one completed
C28_Witness ==
    /\ \A t \in Threads : ~InCycle(t) /\ cycles[t] = CycleLimit(t)
    /\ last_update.set
    /\ registry.scrape_errors = 2

\* the published per-node assigned counts of the nodes of a list, added up
PublishedOnNodes(nodes) ==
    SumOf([i \in 1..Len(nodes) |-> registry.node_eip_assigned[nodes[i]]])

\* C29: after every completed aggregation, for each eligible node the
\* published primary count plus the published secondary count equals the
\* published assigned count of that node, and the per-node assigned counts
\* together do not exceed the published global assigned count.
C29_PrimarySecondary ==
    \A t \in Threads :
        AggregationDone(t)
           => LET nodes == loc[t].nodes
              IN /\ \A node \in Range(nodes) :
                       registry.node_eip_primary[node] + registry.node_eip_secondary[node]
                          = registry.node_eip_assigned[node]
                 /\ PublishedOnNodes(nodes) <= registry.eips_assigned

\* a step of the collection stage of a cycle: the cleanup, the node cache, a
\* fetch, whether the collection goes on, returns its inputs or fails
CollectionStep(t) == pc'[t] # pc[t] /\ StageOf(pc[t]) \in {0, 1}

\* the later window is the earlier one without entries of an hour or more
EvictedOnly(earlier, later) ==
    /\ later = SelectSeqBy(earlier, Range(later))
    /\ \A e \in Range(earlier) \ Range(later) : now - e.timestamp >= 3600

====
